---------------------------- MODULE Spec2Model ----------------------------
(***************************************************************************)
(* A model of function_app.py: the HTTP trigger `report`, the paginated    *)
(* fetch `fetch_controls`, the sort key `identifier_key`, the attribute    *)
(* helper `get_attribute_value` and the renderer `generate_pdf` with its   *)
(* nested cursor procedure `draw`.                                         *)
(*                                                                         *)
(* Python strings are sequences of one-character strings.  JSON values     *)
(* are tagged records: a missing key, null, a string, a number or an       *)
(* object (a record with one field per known key).                         *)
(***************************************************************************)
EXTENDS Integers, Sequences, FiniteSets, TLC

VARIABLES
    pc,            \* position of the request: start, fetch, render, draw, save, except, done
    scenario,      \* the upstream's data set: the page contents it can answer with
    org_id,        \* req.route_params.get("org_id")
    page,          \* fetch_controls: page
    total_pages,   \* fetch_controls: total_pages of the last response
    controls,      \* fetch_controls: controls, then the list generate_pdf sorts in place
    requests,      \* the upstream requests issued so far, in order
    responses,     \* the upstream's answers so far, in order
    fetched,       \* the list fetch_controls returned, in arrival order
    company_name,  \* generate_pdf: company_name
    avg,           \* generate_pdf: avg
    todo,          \* generate_pdf: the draw calls still to be made, in order
    y,             \* generate_pdf: the cursor y
    pageNo,        \* the canvas: number of the page being drawn on
    drawn,         \* the canvas: every drawString so far, in order
    exc,           \* the exception being propagated, if any
    response       \* the HttpResponse of report

vars == <<pc, scenario, org_id, page, total_pages, controls, requests, responses,
          fetched, company_name, avg, todo, y, pageNo, drawn, exc, response>>

---------------------------------------------------------------------------
(* Bounds of the model *)

MaxTotalPages == 3
MaxCopies == 10
MaxSortLen == 3
MaxNameLen == 2
MaxScoreLen == 2
MaxAbsentLen == 2
(* page counts the requests exactly below PageCap and stays there after:  *)
(* PageCap then stands for every larger value.  The logs of requests and *)
(* responses keep their first PageCap entries.                           *)
PageCap == 5
MaxAhead == 2

---------------------------------------------------------------------------
(* Strings *)

Min(a, b) == IF a < b THEN a ELSE b

Rep(c, n) == [i \in 1..n |-> c] \o <<>>

(* a sequence given by a rule, as the tuple of its elements *)
Tabulate(f) == f \o <<>>

RECURSIVE Flatten(_)
Flatten(ss) == IF ss = <<>> THEN <<>> ELSE Head(ss) \o Flatten(Tail(ss))

Digits == <<"0", "1", "2", "3", "4", "5", "6", "7", "8", "9">>

IsDigit(c) == \E d \in 1..10 : Digits[d] = c

DigitVal(c) == (CHOOSE d \in 1..10 : Digits[d] = c) - 1

AllDigits(s) == s # <<>> /\ \A i \in 1..Len(s) : IsDigit(s[i])

RECURSIVE DecVal(_)
DecVal(s) == IF s = <<>> THEN 0 ELSE 10 * DecVal(SubSeq(s, 1, Len(s) - 1)) + DigitVal(s[Len(s)])

RECURSIVE DecStr(_)
DecStr(n) == IF n < 10 THEN <<Digits[n + 1]>> ELSE DecStr(n \div 10) \o <<Digits[(n % 10) + 1]>>

(* str.split(".") *)
RECURSIVE Split(_)
Split(s) ==
    IF \A i \in 1..Len(s) : s[i] # "."
    THEN <<s>>
    ELSE LET k == CHOOSE i \in 1..Len(s) : s[i] = "." /\ \A j \in 1..(i - 1) : s[j] # "."
         IN  <<SubSeq(s, 1, k - 1)>> \o Split(SubSeq(s, k + 1, Len(s)))

---------------------------------------------------------------------------
(* JSON values *)

Absent == [t |-> "absent"]
Null == [t |-> "null"]
Str(s) == [t |-> "str", v |-> s]
Num(n) == [t |-> "num", v |-> n]
List(es) == [t |-> "list", v |-> es]

EmptyControl == [t |-> "obj", identifier |-> Absent, name |-> Absent,
                 description |-> Absent, orgGroupName |-> Absent]
EmptyNamed == [t |-> "obj", name |-> Absent]
EmptyAttributes == [t |-> "obj", value1_2 |-> Absent]

(* Python truth value of a JSON value *)
Truthy(j) ==
    CASE j.t = "absent" -> FALSE
      [] j.t = "null" -> FALSE
      [] j.t = "str" -> j.v # <<>>
      [] j.t = "num" -> j.v # 0
      [] j.t = "list" -> j.v # <<>>
      [] OTHER -> \E k \in DOMAIN j : k # "t" /\ j[k].t # "absent"

(* d.get(key): None when the key is missing *)
Get(d, key) == IF d[key].t = "absent" THEN Null ELSE d[key]

(* d.get(key, default) *)
GetOr(d, key, default) == IF d[key].t = "absent" THEN default ELSE d[key]

(* x or empty *)
Or(x, empty) == IF Truthy(x) THEN x ELSE empty

(* str(x) as an f-string formats it *)
Format(j) ==
    CASE j.t = "null" -> <<"N", "o", "n", "e">>
      [] j.t = "num" -> DecStr(j.v)
      [] OTHER -> j.v

---------------------------------------------------------------------------
(* identifier_key and the sort *)

ValueError == [t |-> "ValueError"]

(* int(part): an optionally signed run of decimal digits, or ValueError *)
Int_(part) ==
    IF AllDigits(part) THEN [t |-> "int", v |-> DecVal(part)]
    ELSE IF Len(part) > 1 /\ part[1] = "-" /\ AllDigits(Tail(part))
         THEN [t |-> "int", v |-> 0 - DecVal(Tail(part))]
    ELSE IF Len(part) > 1 /\ part[1] = "+" /\ AllDigits(Tail(part))
         THEN [t |-> "int", v |-> DecVal(Tail(part))]
    ELSE ValueError

(* a key that puts the segments that are no numbers after the numbers *)
IntOrZero_one(part) == IF Int_(part).t = "ValueError" THEN 1 ELSE Int_(part).v

(* try: int(part) except ValueError: 0 *)
IntOrZero(part) == IF Int_(part).t = "ValueError" THEN 0 ELSE Int_(part).v

identifier_raises(item) ==
    GetOr(Or(Get(item, "control"), EmptyControl), "identifier", Str(<<>>)).t # "str"

identifier_key(item) ==
    LET identifier == GetOr(Or(Get(item, "control"), EmptyControl), "identifier", Str(<<>>))
        parts == Split(identifier.v)
    IN  Tabulate([i \in 1..Len(parts) |-> IntOrZero(parts[i])])

(* Python's comparison of two lists of integers: a < b *)
RECURSIVE ListLess(_, _)
ListLess(a, b) ==
    IF b = <<>> THEN FALSE
    ELSE IF a = <<>> THEN TRUE
    ELSE IF Head(a) # Head(b) THEN Head(a) < Head(b)
    ELSE ListLess(Tail(a), Tail(b))

(* list.sort(key=identifier_key): a stable sort.  Each item goes to the *)
(* position after the items with a smaller key and the earlier items    *)
(* with an equal key.                                                   *)
SortByKey(items) ==
    LET n == Len(items)
        key == Tabulate([i \in 1..n |-> identifier_key(items[i])])
        rank == Tabulate([i \in 1..n |->
                    Cardinality({j \in 1..n : \/ ListLess(key[j], key[i])
                                              \/ (j < i /\ ~ListLess(key[i], key[j]))}) + 1])
    IN  Tabulate([p \in 1..n |-> items[CHOOSE i \in 1..n : rank[i] = p]])

---------------------------------------------------------------------------
(* get_attribute_value and the average score *)

NA == <<"N", "/", "A">>

(* a helper that lets the string "0" through *)
get_attribute_value_zero(item) ==
    LET attrs == Or(Get(item, "attributes"), EmptyAttributes)
        values == Or(Get(attrs, "value1_2"), List(<<>>))
        val == Get(values.v[1], "value")
    IN  IF ~Truthy(values) THEN Str(NA)
        ELSE IF val.t = "null" \/ (val.t = "num" /\ val.v = 0) THEN Str(NA)
        ELSE val

get_attribute_value(item) ==
    LET attrs == Or(Get(item, "attributes"), EmptyAttributes)
        values == Or(Get(attrs, "value1_2"), List(<<>>))
        val == Get(values.v[1], "value")
    IN  IF ~Truthy(values) THEN Str(NA)
        ELSE IF val.t = "null" \/ (val.t = "str" /\ val.v = <<"0">>) \/ (val.t = "num" /\ val.v = 0) THEN Str(NA)
        ELSE val

(* float(v), in hundredths: a number, or a string of decimal digits with at *)
(* most two more after a point; any other string is a ValueError.           *)
Float(v) ==
    IF v.t = "num" THEN [t |-> "float", v |-> 100 * v.v]
    ELSE LET parts == Split(v.v)
         IN  IF Len(parts) = 1 /\ AllDigits(parts[1])
             THEN [t |-> "float", v |-> 100 * DecVal(parts[1])]
             ELSE IF Len(parts) = 2 /\ AllDigits(parts[1] \o parts[2]) /\ Len(parts[2]) <= 2
                  THEN [t |-> "float", v |-> 100 * DecVal(parts[1])
                                              + DecVal(parts[2] \o Rep("0", 2 - Len(parts[2])))]
             ELSE ValueError

(* the list `values` of generate_pdf, in hundredths: a value whose float() *)
(* raises ValueError is passed over                                        *)
Parses(item) == Float(get_attribute_value(item)).t # "ValueError"

Values(items) ==
    LET kept == SelectSeq(items, Parses)
    IN  Tabulate([i \in 1..Len(kept) |-> Float(get_attribute_value(kept[i])).v])

RECURSIVE Sum(_)
Sum(vs) ==
    IF vs = <<>> THEN 0
    ELSE IF Len(vs) = 1 THEN vs[1]
    ELSE Sum(SubSeq(vs, 1, Len(vs) \div 2)) + Sum(SubSeq(vs, (Len(vs) \div 2) + 1, Len(vs)))

(* sum(values) / len(values) if values else None: the mean as the exact *)
(* fraction sum / n, sum in hundredths                                   *)
Average(items) ==
    LET vs == Values(items)
    IN  IF vs = <<>> THEN Null ELSE [t |-> "float", sum |-> Sum(vs), n |-> Len(vs)]

(* f"{avg:.2f}": the fraction rounded to the nearest hundredth, ties to even *)
Fmt2f(a) ==
    LET q == a.sum \div a.n
        r == a.sum % a.n
        h == IF 2 * r > a.n \/ (2 * r = a.n /\ q % 2 = 1) THEN q + 1 ELSE q
    IN  DecStr(h \div 100) \o <<".">> \o <<Digits[((h % 100) \div 10) + 1], Digits[(h % 10) + 1]>>

---------------------------------------------------------------------------
(* textwrap.wrap(text, 100) *)

WrapWidth == 100

(* TextWrapper._split: the maximal runs of spaces and of other characters *)
RECURSIVE Chunks(_)
Chunks(text) ==
    IF text = <<>> THEN <<>>
    ELSE LET sp == (text[1] = " ")
             n == IF \A i \in 1..Len(text) : (text[i] = " ") = sp THEN Len(text)
                  ELSE (CHOOSE i \in 1..Len(text) :
                            /\ (text[i] = " ") # sp
                            /\ \A j \in 1..(i - 1) : (text[j] = " ") = sp) - 1
         IN  <<SubSeq(text, 1, n)>> \o Chunks(SubSeq(text, n + 1, Len(text)))

IsSpace(chunk) == \A i \in 1..Len(chunk) : chunk[i] = " "

(* the inner loop of _wrap_chunks: how many of the chunks fit on the line *)
RECURSIVE Fit(_, _, _)
Fit(chunks, cur_len, width) ==
    IF chunks = <<>> \/ cur_len + Len(Head(chunks)) > width THEN 0
    ELSE 1 + Fit(Tail(chunks), cur_len + Len(Head(chunks)), width)

(* TextWrapper._wrap_chunks, drop_whitespace and break_long_words set *)
RECURSIVE WrapChunks(_, _, _)
WrapChunks(chunks0, lines, width) ==
    IF chunks0 = <<>> THEN lines
    ELSE LET chunks == IF IsSpace(Head(chunks0)) /\ lines # <<>> THEN Tail(chunks0) ELSE chunks0
             k == Fit(chunks, 0, width)
             fitted == SubSeq(chunks, 1, k)
             rest == SubSeq(chunks, k + 1, Len(chunks))
             space_left == width - Len(Flatten(fitted))
             long == rest # <<>> /\ Len(Head(rest)) > width
             cur_line == IF long THEN fitted \o <<SubSeq(Head(rest), 1, space_left)>> ELSE fitted
             rest2 == IF long
                      THEN <<SubSeq(Head(rest), space_left + 1, Len(Head(rest)))>> \o Tail(rest)
                      ELSE rest
             kept == IF cur_line # <<>> /\ IsSpace(cur_line[Len(cur_line)])
                     THEN SubSeq(cur_line, 1, Len(cur_line) - 1) ELSE cur_line
         IN  IF chunks = <<>> THEN lines
             ELSE WrapChunks(rest2, IF kept = <<>> THEN lines ELSE lines \o <<Flatten(kept)>>, width)

Wrap(text) == WrapChunks(Chunks(text), <<>>, WrapWidth)

---------------------------------------------------------------------------
(* Records of the upstream API *)

Item(c, p, e, a) ==
    [t |-> "obj", control |-> c, primaryEntity |-> p, effectivenessInfo |-> e, attributes |-> a]
Control(i, n, d, o) ==
    [t |-> "obj", identifier |-> i, name |-> n, description |-> d, orgGroupName |-> o]
Named(n) == [t |-> "obj", name |-> n]
Attributes(v) == [t |-> "obj", value1_2 |-> v]
Entry(v) == [t |-> "obj", value |-> v]

---------------------------------------------------------------------------
(* generate_pdf: company name, content and cursor *)

PageHeight == 792
x_margin == 40
y_margin == 40
line_height == 14
size == 50
SeparatorLen == 90

UnknownCompany == Str(<<"U", "n", "k", "n", "o", "w", "n", " ", "C", "o", "m", "p", "a", "n", "y">>)

(* the company-name loop: the first item with an orgGroupName or, failing *)
(* that in the same item, a primaryEntity name, ends the loop             *)
ItemCompany(item) ==
    LET control == Or(Get(item, "control"), EmptyControl)
        primary == Or(Get(item, "primaryEntity"), EmptyNamed)
    IN  IF Truthy(Get(control, "orgGroupName")) THEN control.orgGroupName
        ELSE IF Truthy(Get(primary, "name")) THEN primary.name
        ELSE Null

CompanyName(items) ==
    LET named == {i \in 1..Len(items) : ItemCompany(items[i]).t # "null"}
    IN  IF named = {} THEN UnknownCompany
        ELSE ItemCompany(items[CHOOSE i \in named : \A j \in named : i <= j])

TitlePrefix == <<"O", "n", "e", "T", "r", "u", "s", "t", " ", "C", "o", "n", "t", "r", "o", "l", "s", " ", "S", "u", "m", "m", "a", "r", "y", " ", "-", " ">>
AveragePrefix == <<"A", "v", "e", "r", "a", "g", "e", " ", "S", "c", "o", "r", "e", " ", "o", "f", " ", "A", "p", "p", "l", "i", "c", "a", "b", "l", "e", " ", "C", "o", "n", "t", "r", "o", "l", "s", ":", " ">>
IdentifierLabel == <<"I", "d", "e", "n", "t", "i", "f", "i", "e", "r", " ", " ", " ", " ", ":", " ">>
NameLabel == <<"N", "a", "m", "e", " ", " ", " ", " ", " ", " ", " ", " ", " ", " ", ":", " ">>
DescriptionLabel == <<"D", "e", "s", "c", "r", "i", "p", "t", "i", "o", "n", " ", " ", " ", ":", " ">>
ValueLabel == <<"V", "a", "l", "u", "e", " ", " ", " ", " ", " ", " ", " ", " ", " ", ":", " ">>
EffectivenessLabel == <<"E", "f", "f", "e", "c", "t", "i", "v", "e", "n", "e", "s", "s", " ", ":", " ">>

(* the six draw calls of one record *)
ItemLines(item) ==
    LET control == Or(Get(item, "control"), EmptyControl)
        identifier == GetOr(control, "identifier", Str(NA))
        name == GetOr(control, "name", Str(NA))
        description == GetOr(control, "description", Str(NA))
        value == get_attribute_value(item)
        effectiveness == GetOr(Or(Get(item, "effectivenessInfo"), EmptyNamed), "name", Str(NA))
    IN  << IdentifierLabel \o Format(identifier),
           NameLabel \o Format(name),
           DescriptionLabel \o Format(description),
           ValueLabel \o Format(value),
           EffectivenessLabel \o Format(effectiveness),
           Rep("-", SeparatorLen) >>

LinesPerItem == 6

AllItemLines(items) ==
    Tabulate([i \in 1..(LinesPerItem * Len(items)) |->
                 ItemLines(items[((i - 1) \div LinesPerItem) + 1])[((i - 1) % LinesPerItem) + 1]])

(* the texts generate_pdf passes to draw, in order *)
DrawCalls(items, company, average) ==
    << TitlePrefix \o Format(company),
       <<>>,
       AveragePrefix \o (IF average.t = "null" THEN NA ELSE Fmt2f(average)),
       <<>> >> \o AllItemLines(items)

(* a page that is full one line early *)
PageFull_early(cursor) == cursor - line_height <= y_margin

(* if y <= y_margin *)
PageFull(cursor) == cursor <= y_margin

(* the loop body of draw, for the wrapped lines of one text *)
RECURSIVE DrawLines(_, _)
DrawLines(lines, c) ==
    IF lines = <<>> THEN c
    ELSE LET brk == PageFull(c.y)
             y0 == IF brk THEN PageHeight - y_margin ELSE c.y
             p0 == IF brk THEN c.pageNo + 1 ELSE c.pageNo
         IN  DrawLines(Tail(lines),
                       [y |-> y0 - line_height,
                        pageNo |-> p0,
                        drawn |-> Append(c.drawn, [page |-> p0, x |-> x_margin, y |-> y0,
                                                   text |-> Head(lines)])])

(* a draw that moves the cursor down for a text with no line *)
draw_spacing(text, c) ==
    IF Wrap(text) = <<>> THEN [c EXCEPT !.y = c.y - line_height] ELSE DrawLines(Wrap(text), c)

draw(text, c) == DrawLines(Wrap(text), c)

---------------------------------------------------------------------------
(* The state machine: one request to report *)

(* what the upstream holds for page p: its "content", missing past the data *)
Content(p) == IF p < Len(scenario.data) THEN List(scenario.data[p + 1]) ELSE Absent

(* requests.post(...) and raise_for_status(): the ways a page request can end *)
Outcomes == {"ok", "HTTPError", "ConnectionError"}

InitWith(scenarios, org_ids) ==
    /\ pc = "start"
    /\ scenario \in scenarios
    /\ org_id \in org_ids
    /\ page = 0
    /\ total_pages = 0
    /\ controls = <<>>
    /\ requests = <<>>
    /\ responses = <<>>
    /\ fetched = <<>>
    /\ company_name = Null
    /\ avg = Null
    /\ todo = 0
    /\ y = 0
    /\ pageNo = 0
    /\ drawn = <<>>
    /\ exc = Null
    /\ response = Null

(* a report that answers 400 when the route has no org_id *)
Report_validating ==
    /\ pc = "start"
    /\ IF org_id.t = "null"
       THEN /\ response' = [t |-> "response", status |-> 400, mimetype |-> "text/plain", filename |-> <<>>,
                            pages |-> 0, body |-> <<"Missing org_id">>]
            /\ pc' = "done"
            /\ UNCHANGED <<controls, page>>
       ELSE /\ pc' = "fetch"
            /\ controls' = <<>>
            /\ page' = 0
            /\ UNCHANGED response
    /\ UNCHANGED <<scenario, org_id, total_pages, requests, responses, fetched,
                   company_name, avg, todo, y, pageNo, drawn, exc>>

(* report, lines 180-184: read the route parameter and enter fetch_controls *)
Report ==
    /\ pc = "start"
    /\ pc' = "fetch"
    /\ controls' = <<>>
    /\ page' = 0
    /\ UNCHANGED <<scenario, org_id, total_pages, requests, responses, fetched,
                   company_name, avg, todo, y, pageNo, drawn, exc, response>>

Log(log, entry) == IF Len(log) < PageCap THEN Append(log, entry) ELSE log

(* a fetch that goes on after a failed page *)
Raises_never(outcome) == FALSE

(* response.raise_for_status(), and requests.post raising on a network error *)
Raises(outcome) == outcome # "ok"

(* a fetch that keeps only the last page *)
Extend_replacing(list, data) == GetOr(data, "content", List(<<>>)).v

(* controls.extend(data.get("content", [])) *)
Extend(list, data) == list \o GetOr(data, "content", List(<<>>)).v

(* a loop that asks for one page too many *)
LoopEnds_late(p, total) == p > total

(* if page >= total_pages: break *)
LoopEnds(p, total) == p >= total

(* fetch_controls: one iteration of the while loop *)
FetchStep(outcome, tp) ==
    LET data == [t |-> "obj", content |-> Content(page), totalPages |-> tp]
        total == GetOr(data, "totalPages", Num(1)).v
        next == Min(page + 1, PageCap)
    IN  /\ requests' = Log(requests, [page |-> page, size |-> size, value |-> org_id])
        /\ responses' = Log(responses, [ok |-> (outcome = "ok"),
                                        totalPages |-> IF outcome = "ok" THEN tp ELSE Absent])
        /\ IF Raises(outcome)
           THEN /\ exc' = [t |-> outcome, text |-> outcome]
                /\ pc' = "except"
                /\ UNCHANGED <<controls, total_pages, page, fetched>>
           ELSE /\ controls' = Extend(controls, data)
                /\ total_pages' = total
                /\ page' = next
                /\ pc' = IF LoopEnds(next, total) THEN "render" ELSE "fetch"
                /\ fetched' = IF LoopEnds(next, total) THEN controls' ELSE fetched
                /\ UNCHANGED exc

FetchPage ==
    /\ pc = "fetch"
    /\ \E outcome \in Outcomes, tp \in scenario.totals : FetchStep(outcome, tp)
    /\ UNCHANGED <<scenario, org_id, company_name, avg, todo, y, pageNo, drawn, response>>

(* fetch_controls against an upstream whose totalPages is the number of    *)
(* requests it has answered plus `ahead`: it can stay ahead for ever       *)
FetchPageAhead ==
    /\ pc = "fetch"
    /\ \E outcome \in Outcomes, ahead \in (0 - 1)..MaxAhead :
           FetchStep(outcome, Num(Min(page + 1, PageCap) + ahead))
    /\ UNCHANGED <<scenario, org_id, company_name, avg, todo, y, pageNo, drawn, response>>

(* generate_pdf, lines 96-138: sort, company name, average score *)
GeneratePdf ==
    /\ pc = "render"
    /\ IF \E i \in 1..Len(controls) : identifier_raises(controls[i])
       THEN /\ exc' = [t |-> "AttributeError", text |-> "no attribute 'split'"]
            /\ pc' = "except"
            /\ UNCHANGED <<controls, company_name, avg, todo, y, pageNo, drawn>>
       ELSE /\ controls' = SortByKey(controls)
            /\ company_name' = CompanyName(controls')
            /\ avg' = Average(controls')
            /\ y' = PageHeight - y_margin
            /\ pageNo' = 1
            /\ drawn' = <<>>
            /\ todo' = 1
            /\ pc' = "draw"
            /\ UNCHANGED exc
    /\ UNCHANGED <<scenario, org_id, page, total_pages, requests, responses, fetched, response>>

(* the text of the i-th draw call of generate_pdf *)
HeaderLines == 4

DrawCall(i) ==
    IF i <= HeaderLines THEN DrawCalls(<<>>, company_name, avg)[i]
    ELSE ItemLines(controls[((i - HeaderLines - 1) \div LinesPerItem) + 1])[((i - HeaderLines - 1) % LinesPerItem) + 1]

NumDrawCalls == HeaderLines + LinesPerItem * Len(controls)

(* generate_pdf, lines 140-170: the next call of draw *)
Draw ==
    /\ pc = "draw"
    /\ LET c == draw(DrawCall(todo), [y |-> y, pageNo |-> pageNo, drawn |-> drawn])
       IN  /\ y' = c.y
           /\ pageNo' = c.pageNo
           /\ drawn' = c.drawn
    /\ todo' = todo + 1
    /\ pc' = IF todo = NumDrawCalls THEN "save" ELSE "draw"
    /\ UNCHANGED <<scenario, org_id, page, total_pages, controls, requests, responses,
                   fetched, company_name, avg, exc, response>>

(* generate_pdf, lines 172-174, and report, lines 187-193: the PDF response *)
Respond ==
    /\ pc = "save"
    /\ response' = [t |-> "response", status |-> 200, mimetype |-> "application/pdf",
                    filename |-> <<"controls_", Format(org_id), ".pdf">>,
                    pages |-> pageNo, body |-> "pdf"]
    /\ pc' = "done"
    /\ UNCHANGED <<scenario, org_id, page, total_pages, controls, requests, responses,
                   fetched, company_name, avg, todo, y, pageNo, drawn, exc>>

(* report, lines 195-200: the handler of any exception *)
Except ==
    /\ pc = "except"
    /\ response' = [t |-> "response", status |-> 500, mimetype |-> "text/plain", filename |-> <<>>,
                    pages |-> 0, body |-> <<"Error generating report: ", exc.text>>]
    /\ pc' = "done"
    /\ UNCHANGED <<scenario, org_id, page, total_pages, controls, requests, responses,
                   fetched, company_name, avg, todo, y, pageNo, drawn, exc>>

Next == Report \/ FetchPage \/ GeneratePdf \/ Draw \/ Respond \/ Except

---------------------------------------------------------------------------
(* The upstream's data sets *)

Acme == <<"A", "c", "m", "e">>
OrgIds == {Null, Str(<<"4", "2">>)}
PresentOrgId == {Str(<<"4", "2">>)}

(* every totalPages the upstream may report: none, or 0..MaxTotalPages *)
AllTotals == {Absent} \cup {Num(n) : n \in 0..MaxTotalPages}

(* the i-th record of page k: later pages hold smaller identifiers *)
MainItem(k, i) ==
    Item(Control(Str(DecStr(9 - (k % 10)) \o <<".">> \o DecStr(i)), Str(<<"n">>), Str(<<"d">>), Str(Acme)),
         Absent, Named(Str(<<"o", "k">>)), Attributes(List(<<Entry(Str(DecStr(10 * i)))>>)))

MainPage(k) == Tabulate([i \in 1..(k % 3) |-> MainItem(k, i)])

MainData(n) == Tabulate([k \in 1..n |-> MainPage(k)])

(* three pages of 50, 50 and 7 records, totalPages = 3 *)
BigData == <<Rep(MainItem(1, 1), size), Rep(MainItem(2, 1), size), Rep(MainItem(3, 1), 7)>>

BigScenario == [data |-> BigData, totals |-> {Num(3)}]

MainScenarios ==
    {[data |-> MainData(n), totals |-> AllTotals] : n \in 0..MaxTotalPages} \cup {BigScenario}

Init == InitWith(MainScenarios, OrgIds)

(* every list of at most n elements of a set *)
ListsUpTo(set, n) == UNION {[1..k -> set] : k \in 0..n}

(* one page holding the list, reported as the only page *)
OnePage(list) == [data |-> <<list>>, totals |-> {Num(1)}]

(* records that differ in their identifier only *)
SortItem(id) == Item(Control(Str(id), Absent, Absent, Absent), Absent, Absent, Absent)

SortIds == {<<"1", "0", ".", "1">>, <<"2", ".", "1", "0">>, <<"2", ".", "2">>, <<"2">>, <<"2", ".", "a">>, <<"2", ".", "0">>, <<"1", ".", "2", ".", "a">>, <<>>}

ExampleIds == <<<<"1", "0", ".", "1">>, <<"2", ".", "1">>, <<"2", ".", "1", "0">>, <<"2", ".", "2">>>>

ExampleSorted == <<<<"2", ".", "1">>, <<"2", ".", "2">>, <<"2", ".", "1", "0">>, <<"1", "0", ".", "1">>>>

SortScenarios ==
    {OnePage(Tabulate([i \in 1..Len(ids) |-> SortItem(ids[i])])) :
        ids \in ListsUpTo(SortIds, MaxSortLen) \cup {ExampleIds}}

InitSort == InitWith(SortScenarios, PresentOrgId)

SpecSort == InitSort /\ [][Next]_vars

(* records that differ in where a company name can be found *)
NameItem(id, org, primary) == Item(Control(Str(id), Absent, Absent, org), primary, Absent, Absent)

Beta == <<"B", "e", "t", "a">>

NameItems ==
    {NameItem(id, org, primary) :
        id \in {<<"1">>, <<"2">>},
        org \in {Absent, Str(<<>>), Str(Acme)},
        primary \in {Absent, Null, Named(Str(Beta))}}

InitNames == InitWith({OnePage(l) : l \in ListsUpTo(NameItems, MaxNameLen)}, PresentOrgId)

SpecNames == InitNames /\ [][Next]_vars

(* records that differ in their value1_2 attribute only *)
ScoreItem(a) == Item(Control(Str(<<"1">>), Absent, Absent, Absent), Absent, Absent, a)

ScoreValue(v) == ScoreItem(Attributes(List(<<Entry(v)>>)))

ScoreValues ==
    {Absent, Null, Num(0), Num(10), Str(<<"0">>), Str(<<"1", "0">>), Str(<<"3", "0">>), Str(NA),
     Str(<<"0", ".", "0">>), Str(<<"2", ".", "5">>)}

ScoreItems ==
    {ScoreValue(v) : v \in ScoreValues}
    \cup {ScoreItem(a) : a \in {Absent, Null, Attributes(Absent), Attributes(Null),
                                Attributes(List(<<>>)),
                                Attributes(List(<<Entry(Str(<<"1", "0">>)), Entry(Str(<<"3", "0">>))>>))}}

ExampleScores == <<ScoreValue(Str(<<"1", "0">>)), ScoreValue(Str(<<"0">>)), ScoreValue(Str(NA)),
                   ScoreValue(Str(<<"3", "0">>))>>

InitScores ==
    InitWith({OnePage(l) : l \in ListsUpTo(ScoreItems, MaxScoreLen) \cup {ExampleScores}},
             PresentOrgId)

SpecScores == InitScores /\ [][Next]_vars

(* a record with every known field, and the records that lack one field, *)
(* as a missing key or as null                                            *)
FullControl == Control(Str(<<"7">>), Str(<<"n">>), Str(<<"d">>), Str(Acme))
FullNamed == Named(Str(<<"o", "k">>))
FullAttributes == Attributes(List(<<Entry(Str(<<"1", "0">>))>>))
FullItem == Item(FullControl, FullNamed, FullNamed, FullAttributes)

Gone == {Absent, Null}

AbsentItems ==
    {FullItem}
    \cup {[FullItem EXCEPT !.control = g] : g \in Gone}
    \cup {[FullItem EXCEPT !.control.identifier = g] : g \in Gone}
    \cup {[FullItem EXCEPT !.control.name = g] : g \in Gone}
    \cup {[FullItem EXCEPT !.control.description = g] : g \in Gone}
    \cup {[FullItem EXCEPT !.control.orgGroupName = g] : g \in Gone}
    \cup {[FullItem EXCEPT !.primaryEntity = g] : g \in Gone}
    \cup {[FullItem EXCEPT !.primaryEntity.name = g] : g \in Gone}
    \cup {[FullItem EXCEPT !.effectivenessInfo = g] : g \in Gone}
    \cup {[FullItem EXCEPT !.effectivenessInfo.name = g] : g \in Gone}
    \cup {[FullItem EXCEPT !.attributes = g] : g \in Gone}
    \cup {[FullItem EXCEPT !.attributes.value1_2 = g] : g \in Gone}
    \cup {[FullItem EXCEPT !.attributes.value1_2 = List(<<Entry(g)>>)] : g \in Gone}

InitAbsent == InitWith({OnePage(l) : l \in ListsUpTo(AbsentItems, MaxAbsentLen)}, PresentOrgId)

SpecAbsent == InitAbsent /\ [][Next]_vars

(* records whose description wraps to 1, 2, 3, 5 or 6 lines; the i-th of n *)
(* records carries the identifier n + 1 - i                                *)
Descriptions ==
    {Absent,
     Str(Rep("y", 60) \o <<" ">> \o Rep("z", 60)),
     Str(Rep("x", 250)),
     Str(Rep("w", 100) \o <<" ">> \o Rep("v", 100) \o <<" ">> \o Rep("u", 100) \o <<" ">> \o Rep("t", 100)),
     Str(Rep("w", 100) \o <<" ">> \o Rep("v", 100) \o <<" ">> \o Rep("u", 100) \o <<" ">> \o Rep("t", 100)
         \o <<" ">> \o Rep("s", 100))}

LayoutItem(id, d) ==
    Item(Control(Str(DecStr(id)), Str(<<"n">>), d, Str(Acme)), Absent, FullNamed, FullAttributes)

LayoutScenarios ==
    {OnePage(Tabulate([i \in 1..n |-> LayoutItem(n + 1 - i, d)])) :
        n \in 0..MaxCopies, d \in Descriptions}

InitLayout == InitWith(LayoutScenarios, PresentOrgId)

SpecLayout == InitLayout /\ [][Next]_vars

Spec == Init /\ [][Next]_vars

(* the same request against the upstream that stays ahead.  The code runs *)
(* in one thread and every page request returns or raises (timeout=60),   *)
(* so report, the fetch loop and the exception handler take the step they *)
(* can take.                                                               *)
NextAhead == Report \/ FetchPageAhead \/ GeneratePdf \/ Draw \/ Respond \/ Except

InitAhead == InitWith({[data |-> MainData(n), totals |-> {}] : n \in 1..2}, PresentOrgId)

SpecAhead ==
    /\ InitAhead /\ [][NextAhead]_vars
    /\ WF_vars(Report) /\ WF_vars(FetchPageAhead) /\ WF_vars(Except)

---------------------------------------------------------------------------
(* Claims about fetch_controls and report *)

(* the totalPages a response counts for: 1 when it reports none *)
Reported(r) == IF r.totalPages.t = "absent" THEN 1 ELSE r.totalPages.v

(* the records the upstream holds for page p *)
PageRecords(p) == IF p < Len(scenario.data) THEN scenario.data[p + 1] ELSE <<>>

(* fetch_controls has returned its list *)
FetchReturned == responses # <<>> /\ responses[Len(responses)].ok /\ pc # "fetch"

AllOk == \A k \in 1..Len(responses) : responses[k].ok

(* C1: when every page request succeeds and every response reports the same *)
(* totalPages T >= 1 (none counting as 1), fetch_controls issues exactly T   *)
(* requests, for pages 0..T-1 in order, and returns the pages' records       *)
(* concatenated in arrival order; pages of 50/50/7 records with              *)
(* totalPages = 3 give 3 requests and 107 records.                           *)
C1_ExactlyTPages ==
    /\ page < PageCap
    /\ \A T \in 1..(MaxTotalPages + 1) :
          (FetchReturned /\ AllOk /\ \A k \in 1..Len(responses) : Reported(responses[k]) = T)
          => /\ Len(requests) = T
             /\ \A k \in 1..T : requests[k].page = k - 1 /\ requests[k].size = 50
             /\ fetched = Flatten([k \in 1..T |-> PageRecords(k - 1)])
    /\ (FetchReturned /\ scenario = BigScenario) => Len(requests) = 3 /\ Len(fetched) = 107

C1_Witness ==
    /\ FetchReturned
    /\ scenario = BigScenario
    /\ Len(requests) = 3 /\ Len(fetched) = 107

(* C2: when the request for page k fails, no request follows it, no list is *)
(* returned, and report answers 500 with the exception text in the body; a   *)
(* 200 response is never built from a strict subset of the pages.            *)
C2_FailureAborts ==
    /\ \A k \in 1..Len(responses) :
          ~responses[k].ok
          => /\ Len(requests) = k
             /\ fetched = <<>>
             /\ pc \in {"except", "done"}
             /\ pc = "done" => /\ response.status = 500
                               /\ response.body = <<"Error generating report: ", exc.text>>
                               /\ exc.text \in {"HTTPError", "ConnectionError"}
    /\ (pc = "done" /\ response.status = 200)
          => /\ AllOk
             /\ Len(controls) = Len(Flatten([k \in 1..Len(requests) |-> PageRecords(requests[k].page)]))

C2_Witness ==
    /\ pc = "done" /\ response.status = 500
    /\ Len(responses) = 3 /\ ~responses[3].ok
    /\ controls # <<>>

(* C3 as stated: with org_id absent, report answers 400 "Missing org_id" *)
(* and no upstream request has gone out.                                  *)
C3_MissingOrgIdIs400 ==
    (pc = "done" /\ org_id.t = "null")
    => /\ response.status = 400
       /\ response.body = <<"Missing org_id">>
       /\ requests = <<>>

(* C3, amended: report does not validate org_id.  With org_id absent it   *)
(* never answers 400: fetch_controls is called with None, a first request  *)
(* with the filter value None goes out before any response, and the answer *)
(* is 200 (the file named controls_None.pdf) or 500.                       *)
C3_MissingOrgIdIsFetched ==
    /\ response.t # "null" => response.status \in {200, 500}
    /\ (pc = "done" /\ org_id.t = "null")
       => /\ requests # <<>>
          /\ requests[1].value = Null
          /\ response.status = 200
             => response.filename = <<"controls_", <<"N", "o", "n", "e">>, ".pdf">>

C3_Witness ==
    /\ pc = "done" /\ org_id.t = "null"
    /\ response.status = 200
    /\ Len(requests) = 2

(* C9 as stated: for every sequence of successful responses, growing *)
(* totalPages included, fetch_controls eventually returns.            *)
C9_AlwaysReturns == <>(pc \in {"render", "except", "done"})

(* C9, amended: fetch_controls issues at least one request and stops at the *)
(* first successful response whose totalPages (1 when none is reported) is   *)
(* at most the number of requests issued so far, and only there; it returns  *)
(* only if such a response or a failure comes.                               *)
C9_StopsAtFirstCovered ==
    /\ pc \notin {"start", "fetch"} => requests # <<>>
    /\ Len(responses) < PageCap
       => \A k \in 1..Len(responses) :
             responses[k].ok
             => ((Reported(responses[k]) <= k) <=> (k = Len(responses) /\ pc # "fetch"))

C9_Witness ==
    /\ pc = "done" /\ response.status = 200
    /\ Len(responses) = 3
    /\ Reported(responses[1]) = 2 /\ Reported(responses[2]) = 4 /\ Reported(responses[3]) = 3

---------------------------------------------------------------------------
(* Claims about generate_pdf *)

(* generate_pdf has sorted the list and derived the name and the average *)
Prepared == pc \in {"draw", "save"} \/ (pc = "done" /\ response.status = 200)

(* controls.sort has just returned *)
Sorted == pc = "draw" /\ todo = 1

IdOf(item) == item.control.identifier.v

Ids(items) == Tabulate([i \in 1..Len(items) |-> IdOf(items[i])])

Count(items, x) == Cardinality({i \in 1..Len(items) : items[i] = x})

(* the items of a list that have the key of x, in the list's order *)
WithKeyOf(items, x) ==
    LET Same(z) == identifier_key(z) = identifier_key(x)
    IN  SelectSeq(items, Same)

(* C6: generate_pdf orders the records ascending by the key of            *)
(* control.identifier: the integers of its dot-separated segments, 0 for   *)
(* a segment that is no number ("1.2.a" -> [1,2,0]); keys compare          *)
(* lexicographically, a shorter key before a longer one it is a prefix of; *)
(* records with equal keys keep their arrival order; the output is a       *)
(* permutation of the input; 10.1, 2.1, 2.10, 2.2 come out as 2.1, 2.2,    *)
(* 2.10, 10.1.                                                             *)
C6_SortedStablePermutation ==
    Sorted
    => /\ Len(controls) = Len(fetched)
       /\ \A i \in 1..Len(fetched) : Count(controls, fetched[i]) = Count(fetched, fetched[i])
       /\ \A i, j \in 1..Len(controls) :
             i < j => ~ListLess(identifier_key(controls[j]), identifier_key(controls[i]))
       /\ \A i \in 1..Len(fetched) : WithKeyOf(controls, fetched[i]) = WithKeyOf(fetched, fetched[i])
       /\ \A i \in 1..Len(controls) :
             /\ IdOf(controls[i]) = <<"1", ".", "2", ".", "a">> => identifier_key(controls[i]) = <<1, 2, 0>>
             /\ IdOf(controls[i]) = <<"2", ".", "1", "0">> => identifier_key(controls[i]) = <<2, 10>>
             /\ IdOf(controls[i]) = <<>> => identifier_key(controls[i]) = <<0>>
       /\ \A i, j \in 1..Len(controls) :
             /\ (IdOf(controls[i]) = <<"2">> /\ IdOf(controls[j]) = <<"2", ".", "0">>) => i < j
             /\ (IdOf(controls[i]) = <<"2", ".", "2">> /\ IdOf(controls[j]) = <<"2", ".", "1", "0">>) => i < j
             /\ (IdOf(controls[i]) = <<"2", ".", "1", "0">> /\ IdOf(controls[j]) = <<"1", "0", ".", "1">>) => i < j
       /\ Ids(fetched) = ExampleIds => Ids(controls) = ExampleSorted

C6_Witness ==
    /\ Sorted
    /\ Ids(fetched) = <<<<"2", ".", "a">>, <<"1", "0", ".", "1">>, <<"2", ".", "0">>>>
    /\ Ids(controls) = <<<<"2", ".", "a">>, <<"2", ".", "0">>, <<"1", "0", ".", "1">>>>

HasOrgGroupName(item) ==
    /\ item.control.t = "obj"
    /\ item.control.orgGroupName.t = "str"
    /\ item.control.orgGroupName.v # <<>>

HasPrimaryName(item) ==
    /\ item.primaryEntity.t = "obj"
    /\ item.primaryEntity.name.t = "str"
    /\ item.primaryEntity.name.v # <<>>

First(set) == CHOOSE i \in set : \A j \in set : i <= j

(* C4: the company name is the first non-empty control.orgGroupName of the *)
(* sorted records; only if no record has one is it the first non-empty      *)
(* primaryEntity.name; only if no record has either is it "Unknown          *)
(* Company".  A record with only a primaryEntity.name that precedes a       *)
(* record with an orgGroupName does not decide the name.                    *)
C4_OrgGroupNameFirst ==
    LET org == {i \in 1..Len(controls) : HasOrgGroupName(controls[i])}
        primary == {i \in 1..Len(controls) : HasPrimaryName(controls[i])}
    IN  Prepared
        => company_name = IF org # {} THEN controls[First(org)].control.orgGroupName
                          ELSE IF primary # {} THEN controls[First(primary)].primaryEntity.name
                          ELSE Str(<<"U", "n", "k", "n", "o", "w", "n", " ", "C", "o", "m", "p", "a", "n", "y">>)

(* the value of the first value1_2 entry of a record, when the record has one *)
HasValue(item) ==
    /\ item.attributes.t = "obj"
    /\ item.attributes.value1_2.t = "list"
    /\ item.attributes.value1_2.v # <<>>
    /\ item.attributes.value1_2.v[1].value.t \in {"str", "num"}

ValueOf(item) == item.attributes.value1_2.v[1].value

(* the values of the data sets that count, in hundredths: present, not   *)
(* None, not "0", not 0, and a number                                     *)
Worth(v) ==
    CASE v = Num(10) -> 1000
      [] v = Str(<<"1", "0">>) -> 1000
      [] v = Str(<<"3", "0">>) -> 3000
      [] v = Str(<<"0", ".", "0">>) -> 0
      [] v = Str(<<"2", ".", "5">>) -> 250
      [] OTHER -> 0 - 1

Counts(item) == HasValue(item) /\ Worth(ValueOf(item)) >= 0

Worths(items) ==
    LET kept == SelectSeq(items, Counts)
    IN  Tabulate([i \in 1..Len(kept) |-> Worth(ValueOf(kept[i]))])

(* C7: the average score is the mean of exactly the first value1_2 values   *)
(* that are present, not None, not "0", not 0 and parse as a number; a      *)
(* value that does not parse ("N/A") is dropped without raising; with no    *)
(* such value the average is not applicable and rendered N/A; the values    *)
(* "10", "0", "N/A", "30" average 20.                                       *)
C7_AverageOfApplicable ==
    /\ (AllOk /\ pc = "except") => exc.t = "AttributeError"
    /\ Prepared
       => LET w == Worths(controls)
          IN  /\ w = <<>> => avg = Null
              /\ w # <<>> => avg.t = "float" /\ avg.sum = Sum(w) /\ avg.n = Len(w)
              /\ (w = <<>> /\ Len(drawn) >= 2) => drawn[2].text = AveragePrefix \o NA
              /\ fetched = ExampleScores
                 => /\ avg.sum = 20 * 100 * avg.n
                    /\ Len(drawn) >= 2 => drawn[2].text = AveragePrefix \o <<"2", "0", ".", "0", "0">>

C7_Witness ==
    /\ pc = "done" /\ response.status = 200
    /\ fetched = ExampleScores
    /\ avg.n = 2 /\ avg.sum = 4000

(* the text drawn for a field that is absent *)
Placeholder(label) == label \o NA

(* the first of the six draw calls of the i-th record *)
LineOf(i, k) == ItemLines(controls[i])[k]

IsGone(j) == j.t \in {"absent", "null"}

(* C8: for every record that lacks some of the known fields, as a missing *)
(* key or as null, sorting, aggregation and rendering complete without     *)
(* raising and the absent field is rendered as N/A; no such record makes    *)
(* report answer 500.                                                       *)
C8_AbsentFieldsDegrade ==
    /\ (pc = "done" /\ AllOk) => response.status = 200
    /\ Prepared
       => \A i \in 1..Len(controls) :
             LET item == controls[i]
                 c == item.control
                 e == item.effectivenessInfo
             IN  /\ (IsGone(c) \/ IsGone(c.identifier)) => LineOf(i, 1) = Placeholder(IdentifierLabel)
                 /\ (IsGone(c) \/ IsGone(c.name)) => LineOf(i, 2) = Placeholder(NameLabel)
                 /\ (IsGone(c) \/ IsGone(c.description)) => LineOf(i, 3) = Placeholder(DescriptionLabel)
                 /\ ~HasValue(item) => LineOf(i, 4) = Placeholder(ValueLabel)
                 /\ (IsGone(e) \/ IsGone(e.name)) => LineOf(i, 5) = Placeholder(EffectivenessLabel)

(* the sub-lines a full page holds as C5 states it *)
StatedCapacity == (PageHeight - 2 * y_margin) \div line_height

(* the sub-lines a full page holds: the cursor positions 752, 738, ... above the margin *)
Capacity == ((PageHeight - 2 * y_margin - 1) \div line_height) + 1

CeilDiv(a, b) == (a + b - 1) \div b

(* C5 as stated: a page holds floor((792 - 2*40) / 14) = 50 sub-lines, the *)
(* renderer produces ceil(sub-lines / 50) pages and no sub-line is drawn    *)
(* below y = 40.                                                            *)
C5_PagesOfFifty ==
    /\ StatedCapacity = 50
    /\ \A i \in 1..Len(drawn) : drawn[i].y >= y_margin
    /\ (pc = "done" /\ response.status = 200) => response.pages = CeilDiv(Len(drawn), StatedCapacity)

(* C5, amended: a page holds 51 sub-lines, at y = 752, 738, ..., 52: the   *)
(* renderer produces ceil(sub-lines / 51) pages, every page but the last    *)
(* holds exactly 51, and no sub-line is drawn below y = 52.                 *)
C5_PagesOfFiftyOne ==
    /\ Capacity = 51
    /\ \A i \in 1..Len(drawn) :
          /\ drawn[i].y >= y_margin + 12
          /\ drawn[i].page = ((i - 1) \div Capacity) + 1
          /\ drawn[i].y = (PageHeight - y_margin) - line_height * ((i - 1) % Capacity)
    /\ (pc = "done" /\ response.status = 200) => response.pages = CeilDiv(Len(drawn), Capacity)

C5_Witness ==
    /\ pc = "done" /\ response.status = 200
    /\ Len(drawn) = 51
    /\ response.pages = 1

(* the content sequence as C10 lists it, for records with every field but *)
(* the description, which may be missing                                   *)
ContentLines(items) ==
    <<TitlePrefix \o company_name.v,
      AveragePrefix \o (IF avg.t = "null" THEN NA ELSE Fmt2f(avg))>>
    \o Flatten(Tabulate([i \in 1..Len(items) |->
          <<IdentifierLabel \o items[i].control.identifier.v,
            NameLabel \o items[i].control.name.v,
            DescriptionLabel \o (IF items[i].control.description.t = "absent" THEN NA
                                 ELSE items[i].control.description.v),
            ValueLabel \o ValueOf(items[i]).v,
            EffectivenessLabel \o items[i].effectivenessInfo.name.v,
            Rep("-", 90)>>]))

(* the draw calls made so far that are no blank spacer: the spacers are *)
(* calls 2 and 4                                                         *)
ContentDone == IF todo <= 2 THEN todo - 1 ELSE IF todo <= 4 THEN todo - 2 ELSE todo - 3

Texts(lines) == Tabulate([i \in 1..Len(lines) |-> lines[i].text])

(* C10: the sub-lines drawn, page by page and top to bottom, follow the    *)
(* content sequence: title, average score, then each record in sorted      *)
(* order as Identifier, Name, Description, Value, Effectiveness and 90      *)
(* dashes; wrapping keeps the order; the blank spacer draws nothing and     *)
(* does not move the cursor; in a page each sub-line is 14 below the one    *)
(* before; the first sub-line of a page is at y = 752; a page is started    *)
(* only right before a sub-line is drawn, so the last page is not empty.    *)
C10_SubLinesFollowContent ==
    (pc \in {"draw", "save"} \/ (pc = "done" /\ response.status = 200))
    => /\ Texts(drawn)
            = Flatten(Tabulate([k \in 1..ContentDone |-> Wrap(ContentLines(controls)[k])]))
       /\ drawn # <<>> => drawn[1].page = 1 /\ drawn[1].y = 752 /\ drawn[Len(drawn)].page = pageNo
       /\ drawn = <<>> => pageNo = 1 /\ y = 752
       /\ drawn # <<>> => y = drawn[Len(drawn)].y - 14
       /\ \A i \in 1..(Len(drawn) - 1) :
             \/ drawn[i + 1].page = drawn[i].page /\ drawn[i + 1].y = drawn[i].y - 14
             \/ drawn[i + 1].page = drawn[i].page + 1 /\ drawn[i + 1].y = 752

C10_Witness ==
    /\ pc = "done" /\ response.status = 200
    /\ response.pages = 3
    /\ Len(controls) = 10
    /\ Len(drawn) = 112
    /\ drawn[52].page = 2 /\ drawn[52].y = 752

=============================================================================
